---- MODULE Spec2Model ----
(***************************************************************************)
(* Model of streamlit_app.py: the 2025 contribution calculators, the BIR    *)
(* withholding-tax table, process_payroll and the upload handler of main.  *)
(*                                                                         *)
(* Numbers.  Python computes in IEEE-754 binary64; so does the model.  A   *)
(* float is a record [s, e, h, l] that stands for                          *)
(*        s * (h * 2^26 + l) * 2^e,                                        *)
(* with sign s in {-1, 1}, a 53-bit significand split in a high part       *)
(* 2^26 <= h < 2^27 and a low part 0 <= l < 2^26, and the exponent e of    *)
(* its last bit; zero is [0, 0, 0, 0].  The operations fadd, fsub, fmul    *)
(* and fdiv give the exact result rounded to the nearest float, ties to    *)
(* even, as the hardware does; Round2 is Python's round(x, 2).  FromInt(n) *)
(* is float(n) and Dec(n, d) is the float nearest to n / d, which is what  *)
(* a decimal literal such as 0.05 = Dec(5, 100) denotes.  nan is s = 2,    *)
(* inf is s = 3 and -inf is s = -3; float() makes them of the texts "nan"  *)
(* and "inf".  Zero has no sign.  Subnormal numbers and overflow are       *)
(* outside the amounts a payroll holds and are not modelled; nor is a      *)
(* division by zero, which the source never does.                          *)
(***************************************************************************)
EXTENDS Integers, Sequences, FiniteSets, TLC

VARIABLES
    uploaded,   \* the cells of the uploaded spreadsheet (never changed)
    df,         \* the data frame pd.read_excel makes of it; fillna changes it
    pc,         \* where main is
    idx,        \* 1-based position of df.iterrows() in process_payroll
    results,    \* process_payroll's list `results`
    locals,     \* the local variables of each iteration that appended a result
    scope,      \* process_payroll's local variables as they stand
    st_error,   \* the st.error messages shown so far
    shown,      \* the other widgets main has rendered
    call,       \* calculator under test: its name and arguments
    ret         \* what the calculator returned

vars == <<uploaded, df, pc, idx, results, locals, scope, st_error, shown, call, ret>>

----------------------------------------------------------------------------
(* Binary64 arithmetic *)


TwoP12 == 4096
TwoP13 == 8192
TwoP23 == 8388608
TwoP25 == 33554432
TwoP26 == 67108864
TwoP27 == 134217728
TwoP28 == 268435456
TwoP29 == 536870912

\* Pow2[n + 1] = 2^n, for n in 0..30
Pow2 ==
    << 1, 2, 4, 8, 16, 32, 64, 128, 256, 512, 1024, 2048, 4096, 8192, 16384,
       32768, 65536, 131072, 262144, 524288, 1048576, 2097152, 4194304,
       8388608, 16777216, 33554432, 67108864, 134217728, 268435456,
       536870912, 1073741824 >>

Zero == [s |-> 0, e |-> 0, h |-> 0, l |-> 0]

\* Not a number: what an empty cell holds; every operation on it gives it back
\* and every comparison with it is false.
FNaN == [s |-> 2, e |-> 0, h |-> 0, l |-> 0]
IsNaN(x) == x.s = 2

\* The infinities: inf is s = 3 and -inf is s = -3, so that the signs order
\* them around every finite number.
FInf == [s |-> 3, e |-> 0, h |-> 0, l |-> 0]
IsInf(x) == x.s = 3 \/ x.s = -3
Sign(x) == IF x.s > 0 THEN 1 ELSE IF x.s < 0 THEN -1 ELSE 0
Inf(s) == [s |-> 3 * s, e |-> 0, h |-> 0, l |-> 0]

\* Round to nearest, ties to even.  g tells where the discarded part lies:
\* 0 nothing discarded, 1 below half a unit, 2 exactly half, 3 above half.
Pack(s, e, h, l, g) ==
    IF g = 3 \/ (g = 2 /\ l % 2 = 1)
    THEN IF l + 1 < TwoP26 THEN [s |-> s, e |-> e, h |-> h, l |-> l + 1]
         ELSE IF h + 1 < TwoP27 THEN [s |-> s, e |-> e, h |-> h + 1, l |-> 0]
         ELSE [s |-> s, e |-> e + 1, h |-> TwoP26, l |-> 0]
    ELSE [s |-> s, e |-> e, h |-> h, l |-> l]

Guard(roundbit, sticky) ==
    IF roundbit = 0 THEN (IF sticky THEN 1 ELSE 0) ELSE (IF sticky THEN 3 ELSE 2)

\* <<H, L>> with the last bit of L set when bits were lost to its right
Jam(H, L, lost) == <<H, IF lost /\ L % 2 = 0 THEN L + 1 ELSE L>>

\* The number of bits of n, for 0 <= n < 2^31: the least b in lo..hi with
\* n < 2^b, found by halving
RECURSIVE BitSearch(_, _, _)
BitSearch(n, lo, hi) ==
    IF lo = hi THEN lo
    ELSE IF n < Pow2[((lo + hi) \div 2) + 1] THEN BitSearch(n, lo, (lo + hi) \div 2)
    ELSE BitSearch(n, ((lo + hi) \div 2) + 1, hi)

BitLength(n) == IF n >= Pow2[31] THEN 31 ELSE BitSearch(n, 0, 30)

\* The float of sign s whose magnitude is the integer a of b bits
FromBits(s, a, b) ==
    [s |-> s,
     e |-> b - 53,
     h |-> IF b <= 27 THEN a * Pow2[27 - b + 1] ELSE a \div Pow2[b - 27 + 1],
     l |-> IF b <= 27 THEN 0
           ELSE (a % Pow2[b - 27 + 1]) * Pow2[26 - (b - 27) + 1]]

FromMagnitude(s, a) == FromBits(s, a, BitLength(a))

\* float(n) for an integer n, |n| < 2^31
FromInt(n) ==
    IF n = 0 THEN Zero ELSE FromMagnitude(IF n < 0 THEN -1 ELSE 1, IF n < 0 THEN -n ELSE n)

fneg(x) == IF IsNaN(x) THEN x ELSE [s |-> -x.s, e |-> x.e, h |-> x.h, l |-> x.l]
fabs(x) == IF x.s < 0 THEN fneg(x) ELSE x

\* |x| < |y|
MagLess(x, y) ==
    IF y.s = 0 THEN FALSE
    ELSE IF x.s = 0 THEN TRUE
    ELSE IF x.e # y.e THEN x.e < y.e
    ELSE IF x.h # y.h THEN x.h < y.h
    ELSE x.l < y.l

\* x < y
flt(x, y) ==
    IF IsNaN(x) \/ IsNaN(y) THEN FALSE
    ELSE IF x.s # y.s THEN x.s < y.s
    ELSE IF x.s = 1 THEN MagLess(x, y)
    ELSE IF x.s = -1 THEN MagLess(y, x)
    ELSE FALSE

\* x <= y
fle(x, y) == ~IsNaN(x) /\ ~IsNaN(y) /\ ~flt(y, x)

\* The significand as four limbs base 2^13, least first
Limbs(x) == <<x.l % TwoP13, x.l \div TwoP13, x.h % TwoP13, x.h \div TwoP13>>

\* The digits base 2^13, least first, of the number whose columns (of any
\* sign) are c[i], c[i+1], ... plus a carry; the last digit keeps what is left.
RECURSIVE Carry(_, _, _)
Carry(c, i, carry) ==
    IF i = Len(c) THEN <<c[i] + carry>>
    ELSE <<(c[i] + carry) % TwoP13>> \o Carry(c, i + 1, (c[i] + carry) \div TwoP13)

\* The columns of the schoolbook product of two limb sequences
Columns(a, b) ==
    << a[1] * b[1],
       a[1] * b[2] + a[2] * b[1],
       a[1] * b[3] + a[2] * b[2] + a[3] * b[1],
       a[1] * b[4] + a[2] * b[3] + a[3] * b[2] + a[4] * b[1],
       a[2] * b[4] + a[3] * b[3] + a[4] * b[2],
       a[3] * b[4] + a[4] * b[3],
       a[4] * b[4] >>

\* The 106-bit product d (seven digits, the last one 26 or 27 bits), rounded
MulRound(s, e, d) ==
    IF d[7] >= TwoP27
    THEN Pack(s, e + 53, d[7] \div 2,
              (d[7] % 2) * TwoP25 + ((d[6] * TwoP13 + d[5]) \div 2),
              Guard(d[5] % 2, d[4] + d[3] + d[2] + d[1] # 0))
    ELSE Pack(s, e + 52, d[7], d[6] * TwoP13 + d[5],
              Guard(d[4] \div TwoP12, (d[4] % TwoP12) + d[3] + d[2] + d[1] # 0))

\* x * y
fmul(x, y) ==
    IF IsNaN(x) \/ IsNaN(y) THEN FNaN
    ELSE IF IsInf(x) \/ IsInf(y)
    THEN IF x.s = 0 \/ y.s = 0 THEN FNaN ELSE Inf(Sign(x) * Sign(y))
    ELSE IF x.s = 0 \/ y.s = 0 THEN Zero
    ELSE MulRound(x.s * y.s, x.e + y.e, Carry(Columns(Limbs(x), Limbs(y)), 1, 0))

\* R >= Y for two-limb numbers R = rh * 2^26 + rl and Y = y.h * 2^26 + y.l
AtLeast(rh, rl, y) == rh > y.h \/ (rh = y.h /\ rl >= y.l)

\* R - Y as <<high, low>>, for R >= Y
Minus(rh, rl, y) ==
    IF rl >= y.l THEN <<rh - y.h, rl - y.l>> ELSE <<rh - y.h - 1, rl + TwoP26 - y.l>>

\* <<q, R>> with R >= 0 brought below Y by moving multiples of Y into q
RECURSIVE Correct(_, _, _, _)
Correct(q, rh, rl, y) ==
    IF AtLeast(rh, rl, y)
    THEN IF rl >= y.l THEN Correct(q + 1, rh - y.h, rl - y.l, y)
         ELSE Correct(q + 1, rh - y.h - 1, rl + TwoP26 - y.l, y)
    ELSE <<q, rh, rl>>

\* R * 2^13 - q * Y, given by its digits d, settled
Settle(q, d, y) ==
    Correct(q, d[5] * TwoP26 + d[4] * TwoP13 + d[3], d[2] * TwoP13 + d[1], y)

\* The digit q estimated from below, taken out of R * 2^13
Reduce(q, rh, rl, y) ==
    Settle(q,
           Carry(<< 0 - q * (y.l % TwoP13),
                    (rl % TwoP13) - q * (y.l \div TwoP13),
                    (rl \div TwoP13) - q * (y.h % TwoP13),
                    (rh % TwoP13) - q * (y.h \div TwoP13),
                    rh \div TwoP13 >>, 1, 0),
           y)

\* One step of the long division in base 2^13: for a remainder R < Y the
\* digit q = floor(R * 2^13 / Y) and the next remainder R * 2^13 - q * Y.
\* The digit is first estimated from below from the leading bits.
DivDigit(rh, rl, y) ==
    Reduce((rh * 8 + (rl \div TwoP23)) \div ((y.h \div 1024) + 1), rh, rl, y)

\* The digits found so far with one more, and the remainder it leaves
NextDigit(q, d) == <<Append(q, d[1]), d[2], d[3]>>

\* k more digits of the quotient: st = <<digits, remainder high, low>>
RECURSIVE DivDigits(_, _, _)
DivDigits(st, y, k) ==
    IF k = 0 THEN st
    ELSE DivDigits(NextDigit(st[1], DivDigit(st[2], st[3], y)), y, k - 1)

\* The quotient 1.q1q2q3q4 rounded by the doubled last remainder <<th, tl>>
DivPack(s, e, q, th, tl, y) ==
    Pack(s, e, TwoP26 + q[1] * TwoP13 + q[2], q[3] * TwoP13 + q[4],
         Guard(IF AtLeast(th, tl, y) THEN 1 ELSE 0,
               IF AtLeast(th, tl, y) THEN th # y.h \/ tl # y.l
               ELSE th # 0 \/ tl # 0))

DivRound(s, e, st, y) ==
    DivPack(s, e, st[1], 2 * st[2] + ((2 * st[3]) \div TwoP26), (2 * st[3]) % TwoP26, y)

\* The quotient whose first bit is 1 and leaves the remainder r
Quotient(s, e, r, y) == DivRound(s, e, DivDigits(<< <<>>, r[1], r[2] >>, y, 4), y)

\* x / y for y nonzero: 1 + 4 * 13 bits of the quotient, then the rounding bit
fdiv(x, y) ==
    IF IsNaN(x) \/ IsNaN(y) THEN FNaN
    ELSE IF IsInf(x) THEN IF IsInf(y) THEN FNaN ELSE Inf(Sign(x) * Sign(y))
    ELSE IF IsInf(y) THEN Zero
    ELSE IF x.s = 0 THEN Zero
    ELSE IF AtLeast(x.h, x.l, y)
    THEN Quotient(x.s * y.s, x.e - y.e - 52, Minus(x.h, x.l, y), y)
    ELSE Quotient(x.s * y.s, x.e - y.e - 53,
                  Minus(2 * x.h + ((2 * x.l) \div TwoP26), (2 * x.l) % TwoP26, y), y)

\* Where the three guard bits r lie
Grs(r) == IF r = 0 THEN 0 ELSE IF r < 4 THEN 1 ELSE IF r = 4 THEN 2 ELSE 3

\* The guard bits of T = <<e, H, L>>, rounded away
Finish(s, T) == Pack(s, T[1] + 3, T[2], T[3] \div 8, Grs(T[3] % 8))

ShiftHigh(e, H, L, k) ==
    <<e - k, H * Pow2[k + 1] + (L \div Pow2[29 - k + 1]),
      (L % Pow2[29 - k + 1]) * Pow2[k + 1]>>

ShiftLow(e, L, b) ==
    IF b <= 27 THEN <<e - (56 - b), L * Pow2[27 - b + 1], 0>>
    ELSE <<e - (56 - b), L \div Pow2[b - 27 + 1],
           (L % Pow2[b - 27 + 1]) * Pow2[56 - b + 1]>>

\* S = H * 2^29 + L > 0 in units of 2^e, shifted until 2^26 <= H < 2^27; a
\* bit shifted out on the right is kept as a sticky last bit.
Shifted(e, H, L) ==
    IF H >= TwoP27
    THEN <<e + 1>> \o Jam(H \div 2, (H % 2) * TwoP28 + (L \div 2), L % 2 = 1)
    ELSE IF H >= TwoP26 THEN <<e, H, L>>
    ELSE IF H > 0 THEN ShiftHigh(e, H, L, 27 - BitLength(H))
    ELSE ShiftLow(e, L, BitLength(L))

\* A sum or difference S = <<H, L>> in units of 2^e, to a float
Normalize(s, e, S) ==
    IF S[1] = 0 /\ S[2] = 0 THEN Zero ELSE Finish(s, Shifted(e, S[1], S[2]))

\* The significand of y moved d >= 0 bits to the right, three guard bits kept
Align(y, d) ==
    IF d < 29
    THEN Jam(y.h \div Pow2[d + 1],
             ((y.l * 8) \div Pow2[d + 1]) + (y.h % Pow2[d + 1]) * Pow2[29 - d + 1],
             (y.l * 8) % Pow2[d + 1] # 0)
    ELSE Jam(0, y.h \div Pow2[d - 29 + 1], (y.h % Pow2[d - 29 + 1] # 0) \/ y.l # 0)

\* |x| + |Y| or |x| - |Y|, as the signs tell
Combine(x, ys, Y) ==
    IF x.s = ys
    THEN <<x.h + Y[1] + ((x.l * 8 + Y[2]) \div TwoP29), (x.l * 8 + Y[2]) % TwoP29>>
    ELSE IF x.l * 8 >= Y[2] THEN <<x.h - Y[1], x.l * 8 - Y[2]>>
    ELSE <<x.h - Y[1] - 1, x.l * 8 + TwoP29 - Y[2]>>

\* x + y for x, y nonzero with |x| >= |y|
AddOrdered(x, y) ==
    IF x.e - y.e >= 56 THEN x
    ELSE Normalize(x.s, x.e - 3, Combine(x, y.s, Align(y, x.e - y.e)))

\* x + y
fadd(x, y) ==
    IF IsNaN(x) \/ IsNaN(y) THEN FNaN
    ELSE IF IsInf(x) THEN IF IsInf(y) /\ y.s # x.s THEN FNaN ELSE x
    ELSE IF IsInf(y) THEN y
    ELSE IF x.s = 0 THEN y
    ELSE IF y.s = 0 THEN x
    ELSE AddOrdered(IF MagLess(x, y) THEN y ELSE x, IF MagLess(x, y) THEN x ELSE y)

\* x - y
fsub(x, y) == fadd(x, fneg(y))

\* max(x, y) and min(x, y): the first argument unless the second beats it
fmax(x, y) == IF flt(x, y) THEN y ELSE x
fmin(x, y) == IF flt(y, x) THEN y ELSE x

Hundred == FromInt(100)

\* |x| * 100 = P * 2^(x.e + 2) with P = M * 25 as three limbs base 2^26
Limbs26(t0, u, v) ==
    << t0 % TwoP26,
       ((v % TwoP13) * TwoP13 + u + (t0 \div TwoP26)) % TwoP26,
       (v \div TwoP13) + (((v % TwoP13) * TwoP13 + u + (t0 \div TwoP26)) \div TwoP26) >>

Times25(x) == Limbs26(x.l * 25, (x.h % TwoP13) * 25, (x.h \div TwoP13) * 25)

\* floor(P / 2^f), for f >= 26
Cents(P, f) ==
    IF f >= 59 THEN 0
    ELSE IF f >= 52 THEN P[3] \div Pow2[f - 52 + 1]
    ELSE P[3] * Pow2[52 - f + 1] + (P[2] \div Pow2[f - 26 + 1])

\* Bit f - 1 of P
RoundBit(P, f) ==
    IF f >= 60 THEN 0
    ELSE IF f >= 53 THEN (P[3] \div Pow2[f - 53 + 1]) % 2
    ELSE IF f >= 27 THEN (P[2] \div Pow2[f - 27 + 1]) % 2
    ELSE (P[1] \div Pow2[f - 1 + 1]) % 2

\* Whether a bit of P below bit f - 1 is set
Sticky(P, f) ==
    IF f >= 60 THEN TRUE
    ELSE IF f >= 53 THEN (P[3] % Pow2[f - 53 + 1] # 0) \/ P[2] # 0 \/ P[1] # 0
    ELSE IF f >= 27 THEN (P[2] % Pow2[f - 27 + 1] # 0) \/ P[1] # 0
    ELSE P[1] % Pow2[f - 1 + 1] # 0

RoundHalfEven(cents, g) ==
    IF g = 3 \/ (g = 2 /\ cents % 2 = 1) THEN cents + 1 ELSE cents

\* |x| in centavos, rounded to the nearest, an exact half to the even one
RoundCents(P, f) == RoundHalfEven(Cents(P, f), Guard(RoundBit(P, f), Sticky(P, f)))

\* round(x, 2): the centavo nearest to the exact value of x, an exact half to
\* the even centavo, as a float.  Handles 26 <= -(x.e + 2): cents below 2^31.
Round2(x) ==
    IF IsNaN(x) THEN FNaN
    ELSE IF IsInf(x) THEN x
    ELSE IF x.s = 0 THEN Zero
    ELSE fdiv(FromInt(x.s * RoundCents(Times25(x), -(x.e + 2))), Hundred)

Dec(n, d) == fdiv(FromInt(n), FromInt(d))

\* The decimal literals of the source
Lit_0_02 == Dec(2, 100)
Lit_0_05 == Dec(5, 100)
Lit_0_10 == Dec(10, 100)
Lit_0_15 == Dec(15, 100)
Lit_0_20 == Dec(20, 100)
Lit_0_25 == Dec(25, 100)
Lit_0_30 == Dec(30, 100)
Lit_0_35 == Dec(35, 100)
Lit_1_25 == Dec(125, 100)
Lit_1_30 == Dec(130, 100)
Lit_2_00 == Dec(200, 100)



----------------------------------------------------------------------------
(* Spreadsheet cells and float() *)

Num(x) == [k |-> "num", n |-> x, s |-> ""]
Text(s) == [k |-> "str", n |-> Zero, s |-> s]
NaN == [k |-> "nan", n |-> FNaN, s |-> ""]

\* The i-th character of the text s
At(s, i) == SubSeq(s, i, i)

\* A text is a string of Latin-1 characters (code points 0 to 255).
\* The blanks of ASCII: space, tab, line feed, vertical tab (code 11), form
\* feed and carriage return
AsciiWhitespace == {" ", "\t", "\n", "", "\f", "\r"}

\* The blanks float() strips: it first turns the blanks beyond ASCII, next
\* line (code 133) and no-break space (code 160), into spaces.
Whitespace == AsciiWhitespace \cup {"", " "}

\* s without the characters of blanks at its ends
RECURSIVE lstrip(_, _)
lstrip(s, blanks) ==
    IF s # "" /\ Head(s) \in blanks THEN lstrip(Tail(s), blanks) ELSE s
RECURSIVE rstrip(_, _)
rstrip(s, blanks) ==
    IF s # "" /\ At(s, Len(s)) \in blanks
    THEN rstrip(SubSeq(s, 1, Len(s) - 1), blanks)
    ELSE s
strip(s, blanks) == rstrip(lstrip(s, blanks), blanks)

\* An optional sign, and the text after it
SignOf(t) == IF t # "" /\ Head(t) = "-" THEN -1 ELSE 1
Unsigned(t) == IF t # "" /\ Head(t) \in {"+", "-"} THEN Tail(t) ELSE t

\* inf, infinity and nan are read in any case of their letters.
Fold(c) ==
    CASE c = "A" -> "a" [] c = "F" -> "f" [] c = "I" -> "i" [] c = "N" -> "n"
      [] c = "T" -> "t" [] c = "Y" -> "y" [] OTHER -> c
RECURSIVE lower(_)
lower(s) == IF s = "" THEN "" ELSE Fold(Head(s)) \o lower(Tail(s))

DecimalDigits == "0123456789"
IsDigit(c) == \E d \in 1..10 : At(DecimalDigits, d) = c
DigitValue(c) == (CHOOSE d \in 1..10 : At(DecimalDigits, d) = c) - 1
AllDigits(s) == \A i \in 1..Len(s) : IsDigit(At(s, i))

\* An underscore may stand between two digits and nowhere else.
UnderscoresOk(u) ==
    \A i \in 1..Len(u) :
        At(u, i) = "_" =>
            1 < i /\ i < Len(u) /\ IsDigit(At(u, i - 1)) /\ IsDigit(At(u, i + 1))
RECURSIVE WithoutUnderscores(_)
WithoutUnderscores(u) ==
    IF u = "" THEN ""
    ELSE IF Head(u) = "_" THEN WithoutUnderscores(Tail(u))
    ELSE Head(u) \o WithoutUnderscores(Tail(u))

\* Where the first of the characters chars stands in s, 0 if none does
FirstOf(s, chars) ==
    IF \E i \in 1..Len(s) : At(s, i) \in chars
    THEN CHOOSE i \in 1..Len(s) :
            At(s, i) \in chars /\ \A j \in 1..(i - 1) : At(s, j) \notin chars
    ELSE 0

\* A decimal numeral w cut at its point and its e:
\* <<integer digits, fraction digits, exponent, whether it has an e>>
SplitDot(m, dot, x, has_e) ==
    <<IF dot = 0 THEN m ELSE SubSeq(m, 1, dot - 1),
      IF dot = 0 THEN "" ELSE SubSeq(m, dot + 1, Len(m)),
      x, has_e>>
SplitE(w, e) ==
    IF e = 0 THEN SplitDot(w, FirstOf(w, {"."}), "", FALSE)
    ELSE SplitDot(SubSeq(w, 1, e - 1), FirstOf(SubSeq(w, 1, e - 1), {"."}),
                  SubSeq(w, e + 1, Len(w)), TRUE)
Parts(w) == SplitE(w, FirstOf(w, {"e", "E"}))

\* digits [. digits] or . digits, then an optional e [sign] digits
IsNumber(p) ==
    /\ AllDigits(p[1])
    /\ AllDigits(p[2])
    /\ Len(p[1]) + Len(p[2]) > 0
    /\ p[4] => Unsigned(p[3]) # "" /\ AllDigits(Unsigned(p[3]))

\* The number a string of digits spells (below 2^31)
RECURSIVE IntOf(_)
IntOf(s) ==
    IF s = "" THEN 0
    ELSE IntOf(SubSeq(s, 1, Len(s) - 1)) * 10 + DigitValue(At(s, Len(s)))

RECURSIVE TrimZeros(_)
TrimZeros(s) ==
    IF s # "" /\ At(s, Len(s)) = "0" THEN TrimZeros(SubSeq(s, 1, Len(s) - 1)) ELSE s

Pow10 == <<1, 10, 100, 1000, 10000, 100000, 1000000, 10000000, 100000000,
           1000000000>>

\* The float nearest to n * 10^q, for |n| < 2^31 and -9 <= q <= 9
Scaled(n, q) ==
    IF n = 0 THEN Zero
    ELSE IF q >= 0 THEN fmul(FromInt(n), FromInt(Pow10[q + 1]))
    ELSE fdiv(FromInt(n), FromInt(Pow10[1 - q]))

ExponentOf(p) == IF p[4] THEN SignOf(p[3]) * IntOf(Unsigned(p[3])) ELSE 0

\* The value of a numeral: its digits without the fraction's closing zeros,
\* scaled by its exponent less the fraction digits kept
NumberValue(sign, p) ==
    Scaled(sign * IntOf(p[1] \o TrimZeros(p[2])),
           ExponentOf(p) - Len(TrimZeros(p[2])))

\* float(s) accepts the text s: blanks, a sign, then inf, infinity, nan or a
\* decimal numeral.
IsFloatBody(u) ==
    \/ lower(u) \in {"inf", "infinity", "nan"}
    \/ UnderscoresOk(u) /\ IsNumber(Parts(WithoutUnderscores(u)))
IsFloatText(s) == IsFloatBody(Unsigned(strip(s, Whitespace)))

\* float(s) for a text s it accepts
FloatOfBody(sign, u) ==
    IF lower(u) = "nan" THEN FNaN
    ELSE IF lower(u) \in {"inf", "infinity"} THEN Inf(sign)
    ELSE NumberValue(sign, Parts(WithoutUnderscores(u)))
FloatOfSigned(t) == FloatOfBody(SignOf(t), Unsigned(t))
FloatOfText(s) == FloatOfSigned(strip(s, Whitespace))

\* float(cell) raises ValueError on a text that spells no number.
Raises(cell) == cell.k = "str" /\ ~IsFloatText(cell.s)
ToFloat(cell) == IF cell.k = "str" THEN FloatOfText(cell.s) ELSE cell.n

----------------------------------------------------------------------------
(* 2025 government contribution calculators *)

calculate_sss(basic_salary) ==
    IF Raises(basic_salary)
    THEN [employee_share |-> Zero, employer_share |-> Zero, total |-> Zero,
          msc |-> Zero]
    ELSE LET msc == fmin(fmax(ToFloat(basic_salary), FromInt(5000)), FromInt(35000))
             employee_share == Round2(fmul(msc, Lit_0_05))
             employer_share == Round2(fmul(msc, Lit_0_10))
         IN  [employee_share |-> employee_share,
              employer_share |-> employer_share,
              total |-> fadd(employee_share, employer_share),
              msc |-> msc]

calculate_philhealth(salary) ==
    IF Raises(salary)
    THEN [employee_share |-> Zero, employer_share |-> Zero, total |-> Zero]
    ELSE LET total0 == fmul(ToFloat(salary), Lit_0_05)
             total == fmax(fmin(total0, FromInt(2500)), FromInt(500))
             share == Round2(fdiv(total, FromInt(2)))
         IN  [employee_share |-> share,
              employer_share |-> share,
              total |-> fmul(share, FromInt(2))]

calculate_pagibig_halftotal(salary) ==
    IF Raises(salary)
    THEN [employee_share |-> Zero, employer_share |-> Zero, total |-> Zero]
    ELSE LET capped_salary == fmin(ToFloat(salary), FromInt(10000))
             employee_share == fmin(fmul(capped_salary, Lit_0_02), FromInt(200))
             employer_share == fmin(fmul(capped_salary, Lit_0_02), FromInt(200))
         IN  [employee_share |-> employee_share,
              employer_share |-> employer_share,
              total |-> employee_share]

calculate_pagibig(salary) ==
    IF Raises(salary)
    THEN [employee_share |-> Zero, employer_share |-> Zero, total |-> Zero]
    ELSE LET capped_salary == fmin(ToFloat(salary), FromInt(10000))
             employee_share == fmin(fmul(capped_salary, Lit_0_02), FromInt(200))
             employer_share == fmin(fmul(capped_salary, Lit_0_02), FromInt(200))
         IN  [employee_share |-> employee_share,
              employer_share |-> employer_share,
              total |-> fadd(employee_share, employer_share)]

----------------------------------------------------------------------------
(* BIR withholding tax table *)

calculate_bir_tax_lowbase(annual_taxable) ==
    IF Raises(annual_taxable) THEN Zero
    ELSE LET a == ToFloat(annual_taxable)
         IN  IF fle(a, FromInt(250000)) THEN Zero
             ELSE IF fle(a, FromInt(400000))
                  THEN fmul(fsub(a, FromInt(250000)), Lit_0_15)
             ELSE IF fle(a, FromInt(800000))
                  THEN fadd(FromInt(22500), fmul(fsub(a, FromInt(400000)), Lit_0_20))
             ELSE IF fle(a, FromInt(2000000))
                  THEN fadd(FromInt(100000), fmul(fsub(a, FromInt(800000)), Lit_0_25))
             ELSE IF fle(a, FromInt(8000000))
                  THEN fadd(FromInt(402500), fmul(fsub(a, FromInt(2000000)), Lit_0_30))
             ELSE fadd(FromInt(2202500), fmul(fsub(a, FromInt(8000000)), Lit_0_35))

calculate_bir_tax(annual_taxable) ==
    IF Raises(annual_taxable) THEN Zero
    ELSE LET a == ToFloat(annual_taxable)
         IN  IF fle(a, FromInt(250000)) THEN Zero
             ELSE IF fle(a, FromInt(400000))
                  THEN fmul(fsub(a, FromInt(250000)), Lit_0_15)
             ELSE IF fle(a, FromInt(800000))
                  THEN fadd(FromInt(22500), fmul(fsub(a, FromInt(400000)), Lit_0_20))
             ELSE IF fle(a, FromInt(2000000))
                  THEN fadd(FromInt(102500), fmul(fsub(a, FromInt(800000)), Lit_0_25))
             ELSE IF fle(a, FromInt(8000000))
                  THEN fadd(FromInt(402500), fmul(fsub(a, FromInt(2000000)), Lit_0_30))
             ELSE fadd(FromInt(2202500), fmul(fsub(a, FromInt(8000000)), Lit_0_35))

----------------------------------------------------------------------------
(* Payroll processor *)

Range(s) == {s[i] : i \in DOMAIN s}

working_days_per_year == 313
max_monthly_days == 22

working_days_per_month == fdiv(FromInt(working_days_per_year), FromInt(12))

\* The numeric columns, in the order process_payroll converts them.
numeric_cols ==
    << "basic_salary", "allowances", "days_worked",
       "regular_overtime_hours", "rest_day_overtime_hours",
       "holiday_overtime_hours", "special_holiday_overtime_hours",
       "late_minutes", "absent_days", "leave_with_pay_days", "loans" >>

required_cols == {"employee_id", "full_name", "basic_salary"}

\* row.get(key, default)
Get(row, key, default) == IF key \in DOMAIN row THEN row[key] ELSE default

\* df[numeric_cols] = df[numeric_cols].fillna(0)
fillna(frame) ==
    [columns |-> frame.columns,
     rows |-> [i \in DOMAIN frame.rows |->
                 [c \in frame.columns |->
                     IF c \in Range(numeric_cols) /\ frame.rows[i][c].k = "nan"
                     THEN Num(Zero)
                     ELSE frame.rows[i][c]]]]

\* The first numeric column whose float() raises, 0 when none does.
FirstRaise(row) ==
    LET bad == {j \in DOMAIN numeric_cols :
                    Raises(Get(row, numeric_cols[j], Num(Zero)))}
    IN  IF bad = {} THEN 0 ELSE CHOOSE j \in bad : \A m \in bad : j <= m

\* taxable = max(gross - nontaxable, 0)
taxable_income(gross, nontaxable) == fmax(fsub(gross, nontaxable), Zero)

\* annual_taxable = taxable * 12
annualize(taxable) == fmul(taxable, FromInt(12))

\* annual_net_taxable = max(annual_taxable - deductions, 0)
annual_net_taxable(annual_taxable, deductions) ==
    fmax(fsub(annual_taxable, deductions), Zero)

\* monthly_tax = annual_tax / 12
monthly(annual_tax) == fdiv(annual_tax, FromInt(12))

\* total_deductions = nontaxable + monthly_tax + loans
total_deductions_of(nontaxable, monthly_tax, loans) ==
    fadd(fadd(nontaxable, monthly_tax), loans)

\* An assignment that leaves alone a variable an earlier record has set.
assign_once(v, name, value) ==
    IF name \in DOMAIN v THEN v ELSE (name :> value) @@ v

\* The local variables v with one more, or one changed
Assign(v, name, value) ==
    IF name \in DOMAIN v THEN [v EXCEPT ![name] = value] ELSE (name :> value) @@ v

\* The k-th assignment of the loop body (lines 100-171), on the locals v
Statement(k, row, v) ==
    CASE k = 1 -> Assign(v, "basic", ToFloat(Get(row, "basic_salary", Num(Zero))))
      [] k = 2 -> Assign(v, "allowances", ToFloat(Get(row, "allowances", Num(Zero))))
      [] k = 3 -> Assign(v, "days_worked",
                         fmin(ToFloat(Get(row, "days_worked", Num(FromInt(22)))),
                              FromInt(max_monthly_days)))
      [] k = 4 -> Assign(v, "regular_overtime_hours",
                         ToFloat(Get(row, "regular_overtime_hours", Num(Zero))))
      [] k = 5 -> Assign(v, "rest_day_overtime_hours",
                         ToFloat(Get(row, "rest_day_overtime_hours", Num(Zero))))
      [] k = 6 -> Assign(v, "holiday_overtime_hours",
                         ToFloat(Get(row, "holiday_overtime_hours", Num(Zero))))
      [] k = 7 -> Assign(v, "special_holiday_overtime_hours",
                         ToFloat(Get(row, "special_holiday_overtime_hours", Num(Zero))))
      [] k = 8 -> Assign(v, "late_minutes", ToFloat(Get(row, "late_minutes", Num(Zero))))
      [] k = 9 -> Assign(v, "absent_days", ToFloat(Get(row, "absent_days", Num(Zero))))
      [] k = 10 -> Assign(v, "leave_with_pay_days",
                          ToFloat(Get(row, "leave_with_pay_days", Num(Zero))))
      [] k = 11 -> Assign(v, "loans", ToFloat(Get(row, "loans", Num(Zero))))
      [] k = 12 -> Assign(v, "daily_rate", fdiv(v.basic, working_days_per_month))
      [] k = 13 -> Assign(v, "adjusted_basic", v.basic)
      [] k = 14 -> Assign(v, "absent_deduction", fmul(v.daily_rate, v.absent_days))
      [] k = 15 -> Assign(v, "hourly_rate", fdiv(v.daily_rate, FromInt(8)))
      [] k = 16 -> Assign(v, "regular_overtime_rate", fmul(v.hourly_rate, Lit_1_25))
      [] k = 17 -> Assign(v, "regular_overtime_pay",
                          fmul(v.regular_overtime_rate, v.regular_overtime_hours))
      [] k = 18 -> Assign(v, "rest_day_overtime_rate",
                          fmul(fmul(v.hourly_rate, Lit_1_30), Lit_1_30))
      [] k = 19 -> Assign(v, "rest_day_overtime_pay",
                          fmul(v.rest_day_overtime_rate, v.rest_day_overtime_hours))
      [] k = 20 -> Assign(v, "holiday_overtime_rate",
                          fmul(fmul(v.hourly_rate, Lit_2_00), Lit_1_30))
      [] k = 21 -> Assign(v, "holiday_overtime_pay",
                          fmul(v.holiday_overtime_rate, v.holiday_overtime_hours))
      [] k = 22 -> Assign(v, "special_holiday_overtime_rate",
                          fmul(fmul(v.hourly_rate, Lit_1_30), Lit_1_30))
      [] k = 23 -> Assign(v, "special_holiday_overtime_pay",
                          fmul(v.special_holiday_overtime_rate,
                               v.special_holiday_overtime_hours))
      [] k = 24 -> Assign(v, "total_overtime_pay",
                          fadd(fadd(fadd(v.regular_overtime_pay, v.rest_day_overtime_pay),
                                    v.holiday_overtime_pay),
                               v.special_holiday_overtime_pay))
      [] k = 25 -> Assign(v, "minute_rate", fdiv(v.hourly_rate, FromInt(60)))
      [] k = 26 -> Assign(v, "late_deduction", fmul(v.minute_rate, v.late_minutes))
      [] k = 27 -> Assign(v, "gross",
                          fsub(fsub(fadd(fadd(v.adjusted_basic, v.allowances),
                                         v.total_overtime_pay),
                                    v.late_deduction),
                               v.absent_deduction))
      [] k = 28 -> Assign(v, "sss", calculate_sss(Num(v.basic)))
      [] k = 29 -> Assign(v, "philhealth", calculate_philhealth(Num(v.basic)))
      [] k = 30 -> Assign(v, "pagibig", calculate_pagibig(Num(v.basic)))
      [] k = 31 -> Assign(v, "nontaxable",
                          fadd(fadd(v.sss.employee_share, v.philhealth.employee_share),
                               v.pagibig.employee_share))
      [] k = 32 -> Assign(v, "taxable", taxable_income(v.gross, v.nontaxable))
      [] k = 33 -> Assign(v, "annual_taxable", annualize(v.taxable))
      [] k = 34 -> Assign(v, "deductions", FromInt(90000))
      [] k = 35 -> Assign(v, "annual_net_taxable",
                          annual_net_taxable(v.annual_taxable, v.deductions))
      [] k = 36 -> Assign(v, "annual_tax", calculate_bir_tax(Num(v.annual_net_taxable)))
      [] k = 37 -> Assign(v, "monthly_tax", monthly(v.annual_tax))
      [] k = 38 -> Assign(v, "total_deductions",
                          total_deductions_of(v.nontaxable, v.monthly_tax, v.loans))
      [] k = 39 -> Assign(v, "net_pay", fsub(v.gross, v.total_deductions))
      [] k = 40 -> Assign(v, "employer_cost",
                          fadd(fadd(fadd(v.gross, v.sss.employer_share),
                                    v.philhealth.employer_share),
                               v.pagibig.employer_share))
      [] k = 41 -> Assign(v, "thirteenth_month", fdiv(v.basic, FromInt(12)))

LastStatement == 41

\* The locals after the assignments k, k + 1, ... of the loop body, each one
\* carried out (w is its outcome) before the next is looked at
RECURSIVE Run(_, _, _, _)
Run(k, last, row, v) ==
    IF k > last THEN v
    ELSE CHOOSE r \in {Run(k + 1, last, row, w) : w \in {Statement(k, row, v)}} : TRUE

\* The local variables of one iteration of the loop whose conversions succeed.
Locals(row) == Run(1, LastStatement, row, <<>>)

\* The keys results.append adds to the row's own.
OutKeys ==
    {"Regular Overtime Pay", "Rest Day Overtime Pay", "Holiday Overtime Pay",
     "Special Holiday Overtime Pay", "Total Overtime Pay", "Late Deduction",
     "Absent Deduction", "Gross Salary", "SSS Employee", "SSS Employer",
     "PhilHealth Employee", "PhilHealth Employer", "PagIBIG Employee",
     "PagIBIG Employer", "Taxable Income", "Withholding Tax", "Total Deductions",
     "Loans", "Net Pay", "Employer Cost", "13th Month Pay"}

\* The dictionary results.append receives: {**row.to_dict(), ...}
ResultOf(row, l) ==
    ( "Regular Overtime Pay" :> Num(Round2(l.regular_overtime_pay))
   @@ "Rest Day Overtime Pay" :> Num(Round2(l.rest_day_overtime_pay))
   @@ "Holiday Overtime Pay" :> Num(Round2(l.holiday_overtime_pay))
   @@ "Special Holiday Overtime Pay" :> Num(Round2(l.special_holiday_overtime_pay))
   @@ "Total Overtime Pay" :> Num(Round2(l.total_overtime_pay))
   @@ "Late Deduction" :> Num(Round2(l.late_deduction))
   @@ "Absent Deduction" :> Num(Round2(l.absent_deduction))
   @@ "Gross Salary" :> Num(Round2(l.gross))
   @@ "SSS Employee" :> Num(l.sss.employee_share)
   @@ "SSS Employer" :> Num(l.sss.employer_share)
   @@ "PhilHealth Employee" :> Num(l.philhealth.employee_share)
   @@ "PhilHealth Employer" :> Num(l.philhealth.employer_share)
   @@ "PagIBIG Employee" :> Num(l.pagibig.employee_share)
   @@ "PagIBIG Employer" :> Num(l.pagibig.employer_share)
   @@ "Taxable Income" :> Num(Round2(l.taxable))
   @@ "Withholding Tax" :> Num(Round2(l.monthly_tax))
   @@ "Total Deductions" :> Num(Round2(l.total_deductions))
   @@ "Loans" :> Num(Round2(l.loans))
   @@ "Net Pay" :> Num(Round2(l.net_pay))
   @@ "Employer Cost" :> Num(Round2(l.employer_cost))
   @@ "13th Month Pay" :> Num(Round2(l.thirteenth_month)) )
   @@ row

\* One message of st.error: what it is about, the record it names (NaN when
\* it names none) and the columns it names.
Message(kind, employee_id, cols) ==
    [kind |-> kind, employee_id |-> employee_id, cols |-> cols]

----------------------------------------------------------------------------
(* The uploaded spreadsheets the model draws *)

MaxRows == 3
MaxMissing == 1

\* Every field the input may carry.
AllCols == required_cols \cup Range(numeric_cols) \cup {"dependents", "tax_status"}

\* A spreadsheet lacks at most MaxMissing of the columns.
ColumnSets ==
    {AllCols \ m : m \in {x \in SUBSET AllCols : Cardinality(x) <= MaxMissing}}

\* What the rest of a row holds: a "blank" row leaves every optional numeric
\* cell empty and is filed as Single with no dependents; a "worked" row has
\* allowances, overtime, lateness, an absence and a loan, ten dependents and
\* a filing status the tax table does not know.
Profiles == {"blank", "worked"}

\* The rows a sheet is made of, each a basic_salary cell and a profile: the
\* template's salary of 25000, stored as text, on a blank row; 35179 on a
\* worked row, which is above the caps, is taxed, is no multiple of anything
\* the rates divide by and puts PhilHealth's share half way between two
\* centavos; a text that is no number; and the text N/A, which spreadsheets
\* use for "no value".
Choices ==
    { <<Text("25000"), "blank">>,
      <<Num(FromInt(35179)), "worked">>,
      <<Text("abc"), "worked">>,
      <<Text("N/A"), "blank">> }

\* The cell of column c in the i-th row, for the choice ch of its contents.
CellOf(c, i, ch) ==
    CASE c = "employee_id" -> Num(FromInt(i))
      [] c = "full_name" -> Text("name")
      [] c = "basic_salary" -> ch[1]
      [] c = "tax_status" -> Text(IF ch[2] = "blank" THEN "Single" ELSE "Unknown")
      [] c = "dependents" -> Num(FromInt(IF ch[2] = "blank" THEN 0 ELSE 10))
      [] OTHER ->
           IF ch[2] = "blank" THEN NaN
           ELSE CASE c = "allowances" -> Num(FromInt(5000))
                  [] c = "days_worked" -> Num(FromInt(24))
                  [] c = "regular_overtime_hours" -> Num(FromInt(3))
                  [] c = "rest_day_overtime_hours" -> Num(FromInt(2))
                  [] c = "holiday_overtime_hours" -> Num(FromInt(1))
                  [] c = "special_holiday_overtime_hours" -> Num(FromInt(2))
                  [] c = "late_minutes" -> Num(FromInt(10))
                  [] c = "absent_days" -> Num(FromInt(1))
                  [] c = "leave_with_pay_days" -> Num(FromInt(1))
                  [] c = "loans" -> Num(FromInt(1000))

\* The spreadsheet with columns cols whose i-th row holds choice[i].
Upload(cols, choice) ==
    [columns |-> cols,
     rows |-> [i \in DOMAIN choice |-> [c \in cols |-> CellOf(c, i, choice[i])]]]

NoUpload == [columns |-> {}, rows |-> <<>>]
NoCall == [fn |-> "none", args |-> <<>>]

----------------------------------------------------------------------------
(* main: the upload handler, with process_payroll inlined step by step *)

\* The texts pd.read_excel takes for a missing value (keep_default_na).
na_values ==
    {"", "#N/A", "#N/A N/A", "#NA", "-1.#IND", "-1.#QNAN", "-NaN", "-nan",
     "1.#IND", "1.#QNAN", "<NA>", "N/A", "NA", "NULL", "NaN", "None", "n/a",
     "nan", "null"}

\* What the reader takes for a number when it infers a column's type: ASCII
\* blanks, a sign, a decimal numeral without underscores; or inf or infinity
\* with a sign and nothing around it.
IsNumericText(s) ==
    \/ lower(Unsigned(s)) \in {"inf", "infinity"}
    \/ IsNumber(Parts(Unsigned(strip(s, AsciiWhitespace))))

\* A column is read as numbers when every cell of it is a number, is missing
\* or is a text the reader takes for a number.
Convertible(cell) ==
    cell.k # "str" \/ cell.s \in na_values \/ IsNumericText(cell.s)
NumericColumn(sheet, c) ==
    \A i \in DOMAIN sheet.rows : Convertible(sheet.rows[i][c])

\* A cell as read: NaN for one of na_values, the number a text spells in a
\* column read as numbers, else the cell itself.
ReadCell(cell, numeric) ==
    IF cell.k # "str" THEN cell
    ELSE IF cell.s \in na_values THEN NaN
    ELSE IF numeric THEN Num(FloatOfText(cell.s))
    ELSE cell

\* df = pd.read_excel(uploaded_file)
read_excel(sheet) ==
    [columns |-> sheet.columns,
     rows |-> [i \in DOMAIN sheet.rows |->
                 [c \in sheet.columns |->
                     ReadCell(sheet.rows[i][c], NumericColumn(sheet, c))]]]

\* A file has been uploaded; main is about to read it.
Init ==
    /\ \E cols \in ColumnSets, n \in 0..MaxRows :
          \E choice \in [1..n -> Choices] :
             uploaded = Upload(cols, choice)
    /\ df = NoUpload
    /\ pc = "main"
    /\ idx = 0
    /\ results = <<>>
    /\ locals = <<>>
    /\ scope = <<>>
    /\ st_error = <<>>
    /\ shown = <<>>
    /\ call = NoCall
    /\ ret = <<>>

\* main without the `return` after the missing-columns message.
main_check_falls_through ==
    /\ pc = "main"
    /\ df' = read_excel(uploaded)
    /\ st_error' = IF required_cols \subseteq df'.columns THEN st_error
                   ELSE Append(st_error,
                               Message("missing_columns", NaN,
                                       required_cols \ df'.columns))
    /\ pc' = "process_payroll"
    /\ UNCHANGED <<uploaded, idx, results, locals, scope, shown, call, ret>>

\* main, lines 258-264: read the sheet, check the required columns.
main_check ==
    /\ pc = "main"
    /\ df' = read_excel(uploaded)
    /\ IF required_cols \subseteq df'.columns
       THEN /\ pc' = "process_payroll"
            /\ st_error' = st_error
       ELSE /\ st_error' = Append(st_error,
                                  Message("missing_columns", NaN,
                                          required_cols \ df'.columns))
            /\ pc' = "returned"
    /\ UNCHANGED <<uploaded, idx, results, locals, scope, shown, call, ret>>

\* process_payroll, lines 83-95.  Selecting a column the frame lacks raises
\* KeyError, which leaves process_payroll and is caught at main's line 291.
process_payroll_fillna ==
    /\ pc = "process_payroll"
    /\ IF Range(numeric_cols) \subseteq df.columns
       THEN /\ df' = fillna(df)
            /\ idx' = 1
            /\ pc' = "iterrows"
            /\ st_error' = st_error
       ELSE /\ st_error' = Append(st_error,
                                  Message("file", NaN,
                                          Range(numeric_cols) \ df.columns))
            /\ pc' = "returned"
            /\ UNCHANGED <<df, idx>>
    /\ UNCHANGED <<uploaded, results, locals, scope, shown, call, ret>>

\* process_payroll, lines 97-199: one iteration of the loop over df.iterrows().
\* The assignments act on the function's local variables, which one iteration
\* leaves to the next; the float() of column numeric_cols[j] is the j-th
\* assignment, and when it raises the ones before it have been carried out.
process_row ==
    /\ pc = "iterrows"
    /\ idx <= Len(df.rows)
    /\ LET row == df.rows[idx]
           j == FirstRaise(row)
       IN  IF j = 0
           THEN /\ scope' = Run(1, LastStatement, row, scope)
                /\ results' = Append(results, ResultOf(row, scope'))
                /\ locals' = Append(locals, scope')
                /\ st_error' = st_error
           ELSE /\ scope' = Run(1, j - 1, row, scope)
                /\ st_error' = Append(st_error,
                                      Message("row", Get(row, "employee_id", NaN),
                                              {numeric_cols[j]}))
                /\ UNCHANGED <<results, locals>>
    /\ idx' = idx + 1
    /\ UNCHANGED <<uploaded, df, pc, shown, call, ret>>

RECURSIVE SumKey(_, _)
\* payroll_df[key].sum(): the cells added one after the other, from 0, a NaN
\* cell left out (skipna)
SumKey(rs, key) ==
    IF rs = <<>> THEN Zero
    ELSE IF IsNaN(rs[Len(rs)][key].n) THEN SumKey(SubSeq(rs, 1, Len(rs) - 1), key)
    ELSE fadd(SumKey(SubSeq(rs, 1, Len(rs) - 1), key), rs[Len(rs)][key].n)

\* process_payroll line 201 and main lines 271-289: the loop is over, the
\* results are shown; a total is shown with two decimals.  A frame made of no
\* result has no 'Net Pay' column, so the second metric raises KeyError,
\* caught at line 291.
main_display ==
    /\ pc = "iterrows"
    /\ idx > Len(df.rows)
    /\ IF results = <<>>
       THEN /\ shown' = << <<"success", 0>>, <<"Total Employees", 0>> >>
            /\ st_error' = Append(st_error, Message("file", NaN, {"Net Pay"}))
       ELSE /\ shown' = << <<"success", 0>>,
                           <<"Total Employees", Len(results)>>,
                           <<"Total Net Pay", Round2(SumKey(results, "Net Pay"))>>,
                           <<"Total Employer Cost",
                             Round2(SumKey(results, "Employer Cost"))>>,
                           <<"dataframe", Len(results)>>,
                           <<"download_button", Len(results)>> >>
            /\ st_error' = st_error
    /\ pc' = "returned"
    /\ UNCHANGED <<uploaded, df, idx, results, locals, scope, call, ret>>

Next == main_check \/ process_payroll_fillna \/ process_row \/ main_display

Spec == Init /\ [][Next]_vars

----------------------------------------------------------------------------
(* The calculators called on their own *)

MaxOffset == 3

\* Compensations around the floors, caps and thresholds of the three
\* calculators, 0.1 peso and 1 peso apart, a text that is no number, texts
\* that spell one and a NaN.
CompSteps == {1, 10}
CompAnchors == {-12520, 0, 5000, 10000, 12520, 35000, 50000, 751200}
Compensations ==
    {Num(Dec(b * 10 + j * step, 10)) :
        b \in CompAnchors, j \in -MaxOffset..MaxOffset, step \in CompSteps}
        \cup {Text("abc"), Text("12500"), Text(" 7 "), Text("-1e5"), Text("nan"),
              Text("inf"), NaN}

\* Annual incomes around the bracket thresholds, 0.4 peso apart.
IncomeStep == 4
IncomeAnchors == {0, 250000, 400000, 800000, 2000000, 8000000}
Incomes ==
    {Num(Dec(t * 10 + j * IncomeStep, 10)) :
        t \in IncomeAnchors, j \in -MaxOffset..MaxOffset}

InitCalc ==
    /\ uploaded = NoUpload
    /\ df = NoUpload
    /\ pc = "idle"
    /\ idx = 0
    /\ results = <<>>
    /\ locals = <<>>
    /\ scope = <<>>
    /\ st_error = <<>>
    /\ shown = <<>>
    /\ call = NoCall
    /\ ret = <<>>

call_sss ==
    /\ call = NoCall
    /\ \E x \in Compensations :
          /\ call' = [fn |-> "calculate_sss", args |-> <<x>>]
          /\ ret' = <<calculate_sss(x)>>
    /\ UNCHANGED <<uploaded, df, pc, idx, results, locals, scope, st_error, shown>>

call_philhealth ==
    /\ call = NoCall
    /\ \E x \in Compensations :
          /\ call' = [fn |-> "calculate_philhealth", args |-> <<x>>]
          /\ ret' = <<calculate_philhealth(x)>>
    /\ UNCHANGED <<uploaded, df, pc, idx, results, locals, scope, st_error, shown>>

call_pagibig ==
    /\ call = NoCall
    /\ \E x \in Compensations :
          /\ call' = [fn |-> "calculate_pagibig", args |-> <<x>>]
          /\ ret' = <<calculate_pagibig(x)>>
    /\ UNCHANGED <<uploaded, df, pc, idx, results, locals, scope, st_error, shown>>

\* calculate_bir_tax on two incomes, to compare the two taxes.
call_bir_tax ==
    /\ call = NoCall
    /\ \E a \in Incomes, b \in Incomes :
          /\ call' = [fn |-> "calculate_bir_tax", args |-> <<a, b>>]
          /\ ret' = <<calculate_bir_tax(a), calculate_bir_tax(b)>>
    /\ UNCHANGED <<uploaded, df, pc, idx, results, locals, scope, st_error, shown>>

NextCalc == call_sss \/ call_philhealth \/ call_pagibig \/ call_bir_tax

SpecCalc == InitCalc /\ [][NextCalc]_vars

----------------------------------------------------------------------------
(* Properties *)

MandatoryFields == {"employee_id", "full_name", "basic_salary"}

OptionalNumericFields ==
    {"allowances", "days_worked", "regular_overtime_hours",
     "rest_day_overtime_hours", "holiday_overtime_hours",
     "special_holiday_overtime_hours", "late_minutes", "absent_days",
     "leave_with_pay_days", "loans"}

NumericFields == OptionalNumericFields \cup {"basic_salary"}

\* A record is malformed when one of its numeric fields holds a text that is
\* no number.
Malformed(row) == \E c \in NumericFields \cap DOMAIN row : Raises(row[c])

MalformedCount(frame) ==
    Cardinality({i \in DOMAIN frame.rows : Malformed(frame.rows[i])})

RowErrors == {m \in DOMAIN st_error : st_error[m].kind = "row"}

\* C1: for any batch of n records of which k are malformed, the run ends with
\* exactly n-k results and exactly k reported per-record failures.
C1_EveryBatchIsolatesFailures ==
    (pc = "returned" /\ MandatoryFields \subseteq uploaded.columns) =>
        /\ Len(results) = Len(df.rows) - MalformedCount(df)
        /\ Cardinality(RowErrors) = MalformedCount(df)

\* C2: when a mandatory field is absent from the batch, the run reports the
\* missing fields and stops: no record is computed, no result is produced,
\* no summary is shown.
C2_MissingRequiredStopsBeforeProcessing ==
    (~(MandatoryFields \subseteq uploaded.columns) /\ pc # "main") =>
        /\ pc = "returned"
        /\ st_error = <<Message("missing_columns", NaN,
                                MandatoryFields \ uploaded.columns)>>
        /\ idx = 0
        /\ df = read_excel(uploaded)
        /\ results = <<>>
        /\ locals = <<>>
        /\ scope = <<>>
        /\ shown = <<>>

C2_Witness ==
    /\ pc = "returned"
    /\ ~("full_name" \in uploaded.columns)
    /\ Len(uploaded.rows) = MaxRows
    /\ Len(st_error) = 1
    /\ results = <<>>

\* The batch with every absent optional numeric field, column or cell, set
\* to 0.
ZeroFilled(frame) ==
    [columns |-> frame.columns \cup OptionalNumericFields,
     rows |-> [i \in DOMAIN frame.rows |->
                 [c \in frame.columns \cup OptionalNumericFields |->
                     IF c \in OptionalNumericFields
                        /\ (c \notin frame.columns \/ frame.rows[i][c].k = "nan")
                     THEN Num(Zero)
                     ELSE frame.rows[i][c]]]]

Outputs(result) == [key \in OutKeys |-> result[key]]

RECURSIVE ExpectedOutputs(_)
\* What the well-formed records of a batch yield, in order.
ExpectedOutputs(rows) ==
    IF rows = <<>> THEN <<>>
    ELSE IF Malformed(rows[1]) THEN ExpectedOutputs(Tail(rows))
    ELSE <<Outputs(ResultOf(rows[1], Locals(rows[1])))>> \o ExpectedOutputs(Tail(rows))

\* C3: a batch with the mandatory fields that lacks optional numeric fields,
\* as columns or as cells, yields the results of the same batch with those
\* fields set to 0.
C3_MissingOptionalIsZero ==
    (pc = "returned" /\ MandatoryFields \subseteq uploaded.columns) =>
        [j \in DOMAIN results |-> Outputs(results[j])]
            = ExpectedOutputs(fillna(ZeroFilled(read_excel(uploaded))).rows)

\* The positions, among the first n rows, of the well-formed ones.
WellFormedBefore(n) == {i \in 1..n : ~Malformed(df.rows[i])}

\* The j-th smallest member of a set of positions.
Nth(S, j) == CHOOSE i \in S : Cardinality({m \in S : m <= i}) = j

\* C4: the results are those of the well-formed records met so far, in input
\* order, and each is what its record yields on its own (Locals starts from
\* no local variable), whatever the records before it left behind.
C4_IndependentAndOrdered ==
    LET ok == WellFormedBefore(IF idx = 0 THEN 0 ELSE idx - 1)
    IN  /\ Len(results) = Cardinality(ok)
        /\ \A j \in DOMAIN results :
              LET row == df.rows[Nth(ok, j)]
              IN  /\ results[j]["employee_id"] = row["employee_id"]
                  /\ results[j] = ResultOf(row, Locals(row))

C4_Witness ==
    /\ pc = "returned"
    /\ Len(df.rows) = 3
    /\ "basic_salary" \in df.columns
    /\ df.rows[1]["basic_salary"] = Text("25000")
    /\ Malformed(df.rows[2])
    /\ Len(results) = 2
    /\ results[1]["employee_id"] = Num(FromInt(1))
    /\ results[2]["employee_id"] = Num(FromInt(3))
    /\ results[1]["Net Pay"] # results[2]["Net Pay"]

ContributionFns == {"calculate_sss", "calculate_philhealth", "calculate_pagibig"}

\* C5: for every compensation at or below 0 each contribution calculator
\* returns employee_share = 0, employer_share = 0 and total = 0.
C5_NoContributionAtOrBelowZero ==
    (/\ call.fn \in ContributionFns
     /\ ~Raises(call.args[1])
     /\ fle(ToFloat(call.args[1]), Zero)) =>
        /\ ret[1].employee_share = Zero
        /\ ret[1].employer_share = Zero
        /\ ret[1].total = Zero

\* C6: for every compensation at or above 0 and each contribution calculator,
\* both shares are non-negative and their sum is within 0.01 of the total.
C6_SharesReconcile ==
    (/\ call.fn \in ContributionFns
     /\ ~Raises(call.args[1])
     /\ fle(Zero, ToFloat(call.args[1]))) =>
        /\ fle(Zero, ret[1].employee_share)
        /\ fle(Zero, ret[1].employer_share)
        /\ fle(fabs(fsub(fadd(ret[1].employee_share, ret[1].employer_share),
                         ret[1].total)),
               Dec(1, 100))

C6_Witness ==
    /\ call.fn = "calculate_pagibig"
    /\ call.args[1].k = "num"
    /\ flt(Zero, call.args[1].n)
    /\ flt(call.args[1].n, FromInt(10000))
    /\ flt(Zero, ret[1].employee_share)
    /\ ret[1].total = fmul(FromInt(2), ret[1].employee_share)

SupportedStatuses == {"Single"}

\* C7: no result is computed for a record whose tax_status is not a supported
\* filing status.
C7_UnsupportedStatusYieldsNoResult ==
    \A j \in DOMAIN results :
        "tax_status" \in DOMAIN results[j] =>
            results[j]["tax_status"].s \in SupportedStatuses

\* The bracket table of the claim: thresholds in pesos, marginal rates in
\* percent; the base tax at a threshold follows from the brackets below it.
Thresholds == <<250000, 400000, 800000, 2000000, 8000000>>
RatePct == <<15, 20, 25, 30, 35>>

RECURSIVE BaseAt(_)
BaseAt(i) ==
    IF i = 1 THEN Zero
    ELSE fadd(BaseAt(i - 1),
              fmul(FromInt(Thresholds[i] - Thresholds[i - 1]),
                   Dec(RatePct[i - 1], 100)))

\* C8: the tax is 0 up to the lowest threshold, non-decreasing, and continuous
\* at every threshold T: the bracket ending at T gives at T the base tax of
\* the bracket starting at T, which is base[i-1] + (T[i] - T[i-1]) * rate[i-1].
C8_ContinuousAndMonotone ==
    call.fn = "calculate_bir_tax" =>
        LET a == call.args[1].n
            b == call.args[2].n
        IN  /\ (fle(a, FromInt(Thresholds[1])) => ret[1] = Zero)
            /\ (fle(a, b) => fle(ret[1], ret[2]))
            /\ \A i \in DOMAIN Thresholds :
                  /\ (a = FromInt(Thresholds[i]) => ret[1] = BaseAt(i))
                  /\ (/\ a = FromInt(Thresholds[i])
                      /\ flt(a, b)
                      /\ (i = Len(Thresholds) \/ fle(b, FromInt(Thresholds[i + 1]))))
                     => ret[2] = fadd(BaseAt(i),
                                      fmul(fsub(b, a), Dec(RatePct[i], 100)))

C8_Witness ==
    /\ call.fn = "calculate_bir_tax"
    /\ call.args[1].n = FromInt(800000)
    /\ call.args[2].n = Dec(8000000 + IncomeStep, 10)
    /\ ret[1] = FromInt(102500)
    /\ flt(ret[1], ret[2])

\* The dependents count of the record behind results[j], 0 when it has none.
DependentsOf(j) ==
    IF "dependents" \in DOMAIN results[j] THEN results[j]["dependents"].n ELSE Zero

\* tax(A) / 12, for an annual amount A.
MonthlyTaxOn(A) == fdiv(calculate_bir_tax(Num(A)), FromInt(12))

\* C9: the monthly withholding tax is tax(A)/12 with
\* A = max(12 * taxable - standard_deduction
\*         - min(dependents, max_dependents) * dependent_deduction_per_head, 0),
\* here with 90000 standard, at most 4 dependents and 25000 a head.
C9_DependentsLowerTheTax ==
    \A j \in DOMAIN locals :
        locals[j].monthly_tax =
            MonthlyTaxOn(fmax(fsub(fsub(fmul(locals[j].taxable, FromInt(12)),
                                        FromInt(90000)),
                                   fmul(fmin(DependentsOf(j), FromInt(4)),
                                        FromInt(25000))),
                              Zero))

\* C10: before rounding, taxable = max(gross - employee shares, 0); total
\* deductions = employee shares + monthly tax + loans; net pay = gross - total
\* deductions; employer cost = gross + employer shares; so net pay + total
\* deductions = gross, before rounding and, to the centavo, in the amounts
\* of every result.
C10_PayrollIdentities ==
    \A j \in DOMAIN locals :
        LET l == locals[j]
            employee_shares ==
                fadd(fadd(l.sss.employee_share, l.philhealth.employee_share),
                     l.pagibig.employee_share)
            employer_shares ==
                fadd(fadd(l.sss.employer_share, l.philhealth.employer_share),
                     l.pagibig.employer_share)
        IN  /\ l.taxable = fmax(fsub(l.gross, employee_shares), Zero)
            /\ l.total_deductions = fadd(fadd(employee_shares, l.monthly_tax), l.loans)
            /\ l.net_pay = fsub(l.gross, l.total_deductions)
            /\ l.employer_cost = fadd(l.gross, employer_shares)
            /\ fadd(l.net_pay, l.total_deductions) = l.gross
            /\ Round2(fadd(results[j]["Net Pay"].n, results[j]["Total Deductions"].n))
                  = results[j]["Gross Salary"].n

====
